---- MODULE Spec2Model ----
(***************************************************************************)
(* The annotation surface of the P&ID digitizer frontend: the CanvasViewer *)
(* component (fabric canvas, background image fit, wheel/button zoom, pan, *)
(* rectangle draw gesture, overlay rendering, selection) and the Annotator *)
(* page that owns the annotation and connection lists and talks to the     *)
(* annotation store.                                                       *)
(*                                                                         *)
(* Numbers are JavaScript Numbers in the code.  They are modelled as exact *)
(* rationals <<n, d>> (d > 0, lowest terms), so every product, quotient    *)
(* and comparison is computed as the code computes it, without rounding.   *)
(***************************************************************************)
EXTENDS Integers, Sequences, FiniteSets, TLC

VARIABLES
    container,          \* <<clientWidth, clientHeight>> of the canvas wrapper
    pageImage,          \* natural size of each page's rasterized image
    bgImage,            \* <<>> or <<[scale, left, top]>>: the 'backgroundImage' object
    imgPending,         \* pages whose fabric.Image.fromURL is still loading
    vpt,                \* canvas.viewportTransform: [z, tx, ty]
    zoom,               \* useState zoom of CanvasViewer
    zoomOps,            \* number of wheel / zoom-button events so far
    panMoves,           \* number of pan move events so far
    tool,               \* Annotator tool: "select" | "rectangle" | "line"
    isDrawing,          \* useState isDrawing
    drawStart,          \* useState drawStart: <<>> or <<point>>
    tempRect,           \* useState tempRect: <<>> or <<geometry of the temp rect>>
    draws,              \* number of draw gestures started so far
    lastDraw,           \* what the last handleMouseUp that ended a gesture computed
    lastClick,          \* <<position>> of a select-tool 'mouse:down' that was the last event
    lineClicks,         \* ids of the annotations under the line-tool 'mouse:down's that
                        \* were the last events: <<>>, <<first>> or <<first, second>>
    drag,               \* the pan drag under way since the last pan 'mouse:down':
                        \* <<>> or <<[start, at: pointer positions, vpt: transform at start]>>
    lastError,          \* <<what the catch block did>> when the last event was a failed request
    panning,            \* the mouse effect's local 'panning'
    lastPos,            \* the mouse effect's local lastPosX / lastPosY
    objects,            \* canvas objects above the background, bottom to top
    activeObject,       \* fabric's active object: 0 or an annotation id
    currentPage,        \* Annotator currentPage
    annotations,        \* Annotator annotations (list)
    connections,        \* Annotator connections (list)
    selectedAnnotation, \* Annotator selectedAnnotation: <<>> or <<annotation>>
    selInList,          \* selectedAnnotation is the very object held in annotations
    detecting,          \* Annotator detecting (the auto-detect button is disabled)
    inflight,           \* requests issued to the annotation store, not yet answered
    srvAnns,            \* annotation store: annotations of all pages
    srvConns,           \* annotation store: connections of all pages
    nextId,             \* annotation store: next annotation id
    token,              \* localStorage holds a 'token' item
    history,            \* browser history of this tab, oldest first; the last entry
                        \* is the current location
    screen              \* the page element on screen: "Login" | "Dashboard" | "Annotator"

vars == <<container, pageImage, bgImage, imgPending, vpt, zoom, zoomOps, panMoves, tool,
          isDrawing, drawStart, tempRect, draws, lastDraw, lastClick, lineClicks, drag,
          lastError, panning, lastPos, objects, activeObject, currentPage, annotations, connections,
          selectedAnnotation, selInList, detecting, inflight, srvAnns, srvConns, nextId,
          token, history, screen>>

canvasVars == <<container, pageImage, bgImage, imgPending, vpt, zoom, zoomOps, panMoves>>
gestureVars == <<isDrawing, drawStart, tempRect, draws, lastDraw, panning, lastPos>>
pageVars == <<currentPage, annotations, connections, selectedAnnotation, selInList>>
storeVars == <<srvAnns, srvConns, nextId>>
routeVars == <<token, history, screen>>

----------------------------------------------------------------------------
(* Bounds of the model *)

MaxZoomOps == 1
MaxPanMoves == 1
MaxDraws == 1
MaxInflight == 1
MaxHistory == 3
MaxDetected == 1

\* the most requests in flight at once: those of the delete button and of a
\* page change, and one per draw gesture
MaxRequests == MaxInflight + 1 + MaxDraws

----------------------------------------------------------------------------
(* Exact rational arithmetic for JavaScript Numbers *)

RECURSIVE GCD(_, _)
GCD(a, b) == IF b = 0 THEN a ELSE GCD(b, a % b)

IAbs(n) == IF n < 0 THEN -n ELSE n

\* the rational n/d in lowest terms with a positive denominator (d # 0)
Q(n, d) ==
    LET s == IF d < 0 THEN -1 ELSE 1
        g == GCD(IAbs(n), IAbs(d))
    IN  <<(s * n) \div g, (s * d) \div g>>

I(n) == <<n, 1>>

\* common factors are taken out before multiplying, to keep the integers small
RAdd(a, b) ==
    LET g == GCD(a[2], b[2])
    IN  Q(a[1] * (b[2] \div g) + b[1] * (a[2] \div g), (a[2] \div g) * b[2])
RNeg(a) == <<-a[1], a[2]>>
RSub(a, b) == RAdd(a, RNeg(b))
RMul(a, b) ==
    LET g1 == GCD(IAbs(a[1]), b[2])
        g2 == GCD(IAbs(b[1]), a[2])
    IN  Q((a[1] \div g1) * (b[1] \div g2), (a[2] \div g2) * (b[2] \div g1))
\* a / b; by zero the JavaScript result: <<1, 0>> is Infinity, <<-1, 0>> is
\* -Infinity and <<0, 0>> is NaN (comparisons with them come out as in JavaScript)
RDiv(a, b) ==
    IF b[1] = 0
    THEN <<IF a[1] > 0 THEN 1 ELSE IF a[1] < 0 THEN -1 ELSE 0, 0>>
    ELSE RMul(a, Q(b[2], b[1]))
RLt(a, b) ==
    LET g == GCD(a[2], b[2])
    IN  a[1] * (b[2] \div g) < b[1] * (a[2] \div g)
RLe(a, b) == ~RLt(b, a)
RGt(a, b) == RLt(b, a)
RAbs(a) == <<IAbs(a[1]), a[2]>>
RMin(a, b) == IF RLt(b, a) THEN b ELSE a
RMax(a, b) == IF RLt(a, b) THEN b ELSE a

----------------------------------------------------------------------------
(* Program constants *)

MinSize == 10                 \* "if (width > 10 && height > 10)"
MinZoom == Q(1, 10)           \* Math.max(newZoom, 0.1)
MaxZoom == I(5)               \* Math.min(..., 5)
WheelOut == Q(9, 10)          \* delta > 0 ? 0.9 : 1.1
WheelIn == Q(11, 10)
ButtonStep == Q(6, 5)         \* zoom * 1.2, zoom / 1.2
\* a faulty margin: three quarters of the available space
FitMarginSmall == Q(3, 4)
FitMargin == Q(9, 10)         \* Math.min(scaleX, scaleY, 1) * 0.9
LabelRise == I(18)            \* label top = rect top - 18

Origin == <<I(0), I(0)>>
Identity == [z |-> I(1), tx |-> I(0), ty |-> I(0)]

\* the document's pages (page_number = page id)
Pages == {1, 2}

\* documents: the natural size of each page's rasterized image
Documents ==
    { <<<<1600, 1200>>, <<100, 100>>>>,
      <<<<100, 100>>, <<14400, 10800>>>>,
      <<<<14400, 10800>>, <<1600, 1200>>>> }

\* the wrapper element's client size
ContainerSize == <<800, 600>>

\* the sizes the wrapper element takes as the window is resized, down to a
\* wrapper collapsed to no width
Containers == {ContainerSize, <<400, 300>>, <<0, 300>>}

\* pointer positions of mouse and wheel events, in canvas-element pixels
ViewPoints == {<<100, 100>>, <<105, 103>>, <<109, 109>>}
Pt(P) == <<I(P[1]), I(P[2])>>

\* pointer positions of a draw gesture: between them a drag can run in each of
\* the four diagonal directions, and along an axis
DrawPoints == ViewPoints \cup {<<109, 100>>}

----------------------------------------------------------------------------
(* fabric.Canvas: viewport transform *)

\* fabric.util.transformPoint(p, vpt)
TransformPoint(p, v) ==
    <<RAdd(RMul(p[1], v.z), v.tx), RAdd(RMul(p[2], v.z), v.ty)>>

\* fabric.util.transformPoint(p, invertTransform(vpt))
InvertPoint(p, v) ==
    <<RDiv(RSub(p[1], v.tx), v.z), RDiv(RSub(p[2], v.ty), v.z)>>

\* canvas.getPointer(e): the event position with the viewport transform undone
GetPointer(P, v) == InvertPoint(Pt(P), v)

\* canvas.zoomToPoint(point, value): 'point' is taken as a canvas-element
\* position; the scene point shown there stays there
ZoomToPoint(v, point, value) ==
    LET before == point
        scenePt == InvertPoint(point, v)
        v1 == [v EXCEPT !.z = value]
        after == TransformPoint(scenePt, v1)
    IN  [v1 EXCEPT !.tx = RAdd(v.tx, RSub(before[1], after[1])),
                   !.ty = RAdd(v.ty, RSub(before[2], after[2]))]

\* canvas.setZoom(value) = zoomToPoint((0, 0), value)
SetZoom(v, value) == ZoomToPoint(v, Origin, value)

----------------------------------------------------------------------------
(* CanvasViewer: background image fit *)

\* a faulty scale: a small image is blown up to fill the container
FitScaleNoCap(cont, img) ==
    LET scaleX == Q(cont[1], img[1])
        scaleY == Q(cont[2], img[2])
    IN  RMul(RMin(scaleX, scaleY), FitMargin)

FitScale(cont, img) ==
    LET scaleX == Q(cont[1], img[1])
        scaleY == Q(cont[2], img[2])
    IN  RMul(RMin(RMin(scaleX, scaleY), I(1)), FitMargin)

FitImage(cont, img) ==
    LET scale == FitScale(cont, img)
    IN  [width |-> img[1], height |-> img[2], scale |-> scale,
         left |-> RDiv(RSub(I(cont[1]), RMul(I(img[1]), scale)), I(2)),
         top |-> RDiv(RSub(I(cont[2]), RMul(I(img[2]), scale)), I(2))]

----------------------------------------------------------------------------
(* CanvasViewer: page <-> canvas coordinates *)

\* render effect: left = offsetX + ann.x * scale
ToView(p, bg) ==
    <<RAdd(bg.left, RMul(p[1], bg.scale)), RAdd(bg.top, RMul(p[2], bg.scale))>>

\* a faulty view-to-page mapping: the background offset is not taken off
ToPageNoOffset(v, bg) ==
    <<RDiv(v[1], bg.scale), RDiv(v[2], bg.scale)>>

\* handleMouseUp: x = (tempRect.left - offsetX) / scale
ToPage(v, bg) ==
    <<RDiv(RSub(v[1], bg.left), bg.scale), RDiv(RSub(v[2], bg.top), bg.scale)>>

\* render effect: the fabric.Rect of an annotation
AnnotationRect(ann, bg) ==
    LET lt == ToView(<<ann.x, ann.y>>, bg)
    IN  [name |-> "annotation", id |-> ann.id,
         g |-> <<lt[1], lt[2], RMul(ann.width, bg.scale), RMul(ann.height, bg.scale)>>]

\* render effect: the fabric.Text label of an annotation
AnnotationLabel(ann, bg) ==
    LET lt == ToView(<<ann.x, ann.y>>, bg)
    IN  [name |-> "label", id |-> ann.id,
         g |-> <<lt[1], RSub(lt[2], LabelRise), I(0), I(0)>>]

\* a faulty page box: width and height are left in scene units
PageBoxSceneSize(g, bg) ==
    LET xy == ToPage(<<g[1], g[2]>>, bg)
    IN  [x |-> xy[1], y |-> xy[2], width |-> g[3], height |-> g[4]]

\* handleMouseUp: the page-space box of the temp rect
PageBox(g, bg) ==
    LET xy == ToPage(<<g[1], g[2]>>, bg)
    IN  [x |-> xy[1], y |-> xy[2],
         width |-> RDiv(g[3], bg.scale), height |-> RDiv(g[4], bg.scale)]

\* a faulty size test: one dimension above the minimum is enough
BigEnoughEither(box) == RGt(box.width, I(MinSize)) \/ RGt(box.height, I(MinSize))

\* handleMouseUp: "Create annotation if big enough"
BigEnough(box) == RGt(box.width, I(MinSize)) /\ RGt(box.height, I(MinSize))

----------------------------------------------------------------------------
(* CanvasViewer: render effect *)

\* annotations.find(a => a.id === id): <<>> or <<the first match>>
FindAnn(anns, id) ==
    LET hits == SelectSeq(anns, LAMBDA a : a.id = id)
    IN  IF hits = <<>> THEN <<>> ELSE <<hits[1]>>

\* the fabric.Line of a connection whose two endpoints were found
ConnectionLine(conn, fromAnn, toAnn, bg) ==
    LET two == I(2)
        from == ToView(<<RAdd(fromAnn.x, RDiv(fromAnn.width, two)),
                         RAdd(fromAnn.y, RDiv(fromAnn.height, two))>>, bg)
        to == ToView(<<RAdd(toAnn.x, RDiv(toAnn.width, two)),
                       RAdd(toAnn.y, RDiv(toAnn.height, two))>>, bg)
    IN  [name |-> "connection", id |-> conn.id,
         g |-> <<from[1], from[2], to[1], to[2]>>]

\* "if (!fromAnn || !toAnn) return": the connection is drawn only with both ends
Drawable(conn, anns) ==
    FindAnn(anns, conn.from) # <<>> /\ FindAnn(anns, conn.to) # <<>>

Reverse(s) == [i \in 1..Len(s) |-> s[Len(s) + 1 - i]]

\* a faulty effect: the labels of the previous run are not removed
RenderEffectKeepLabels(anns, conns, bg, objs) ==
    LET kept == SelectSeq(objs, LAMBDA o : o.name \in {"temp", "label"})
        boxes == [k \in 1..(2 * Len(anns)) |->
                    IF k % 2 = 1 THEN AnnotationRect(anns[(k + 1) \div 2], bg[1])
                                 ELSE AnnotationLabel(anns[k \div 2], bg[1])]
        drawn == SelectSeq(conns, LAMBDA c : Drawable(c, anns))
        lines == [k \in 1..Len(drawn) |->
                    ConnectionLine(drawn[k], FindAnn(anns, drawn[k].from)[1],
                                   FindAnn(anns, drawn[k].to)[1], bg[1])]
    IN  IF bg = <<>> THEN kept ELSE Reverse(lines) \o kept \o boxes

\* a faulty effect: the connection loop ends at the first connection with a
\* missing endpoint instead of going on to the next one
RenderEffectStopAtDangling(anns, conns, bg, objs) ==
    LET kept == SelectSeq(objs, LAMBDA o : o.name = "temp")
        boxes == [k \in 1..(2 * Len(anns)) |->
                    IF k % 2 = 1 THEN AnnotationRect(anns[(k + 1) \div 2], bg[1])
                                 ELSE AnnotationLabel(anns[k \div 2], bg[1])]
        bad == {i \in 1..Len(conns) : ~Drawable(conns[i], anns)}
        n == IF bad = {} THEN Len(conns)
             ELSE (CHOOSE i \in bad : \A j \in bad : i <= j) - 1
        drawn == SubSeq(conns, 1, n)
        lines == [k \in 1..Len(drawn) |->
                    ConnectionLine(drawn[k], FindAnn(anns, drawn[k].from)[1],
                                   FindAnn(anns, drawn[k].to)[1], bg[1])]
    IN  IF bg = <<>> THEN kept ELSE Reverse(lines) \o kept \o boxes

\* The whole effect.  Overlays named annotation-* and connection-* are removed;
\* without a background image nothing is drawn.  Otherwise a rect and a label
\* are added per annotation, in list order, and a line per drawable connection,
\* each line sent to the back as it is added.
RenderEffect(anns, conns, bg, objs) ==
    LET kept == SelectSeq(objs, LAMBDA o : o.name = "temp")
        boxes == [k \in 1..(2 * Len(anns)) |->
                    IF k % 2 = 1 THEN AnnotationRect(anns[(k + 1) \div 2], bg[1])
                                 ELSE AnnotationLabel(anns[k \div 2], bg[1])]
        drawn == SelectSeq(conns, LAMBDA c : Drawable(c, anns))
        lines == [k \in 1..Len(drawn) |->
                    ConnectionLine(drawn[k], FindAnn(anns, drawn[k].from)[1],
                                   FindAnn(anns, drawn[k].to)[1], bg[1])]
    IN  IF bg = <<>> THEN kept ELSE Reverse(lines) \o kept \o boxes

----------------------------------------------------------------------------
(* fabric.Canvas: target finding on mouse down *)

\* object.containsPoint: the pointer lies within the object's box
ContainsPoint(o, q) ==
    /\ RLe(o.g[1], q[1]) /\ RLe(q[1], RAdd(o.g[1], o.g[3]))
    /\ RLe(o.g[2], q[2]) /\ RLe(q[2], RAdd(o.g[2], o.g[4]))

\* mouse effect: annotation rects are evented with the select and line tools;
\* labels and lines never are; the temp rect keeps fabric's default (evented)
Evented(o, t) ==
    \/ o.name = "temp"
    \/ o.name = "annotation" /\ t \in {"select", "line"}

\* canvas._searchPossibleTargets: the topmost evented object under the pointer,
\* as an index into objs (0: none)
TopmostAt(objs, q, t) ==
    LET hits == {i \in 1..Len(objs) : Evented(objs[i], t) /\ ContainsPoint(objs[i], q)}
    IN  IF hits = {} THEN 0 ELSE CHOOSE i \in hits : \A j \in hits : j <= i

\* canvas.findTarget with preserveObjectStacking left at its default (false):
\* an active object under the pointer is the target whatever lies above it
FindTarget(objs, q, t, active) ==
    LET act == {i \in 1..Len(objs) :
                  /\ objs[i].name = "annotation" /\ objs[i].id = active
                  /\ ContainsPoint(objs[i], q)}
    IN  IF active # 0 /\ act # {} THEN CHOOSE i \in act : TRUE
        ELSE TopmostAt(objs, q, t)

----------------------------------------------------------------------------
(* Annotation store (backend) *)

ZeroBox == [x |-> I(0), y |-> I(0), width |-> I(0), height |-> I(0)]

Ann(id, page, x, y, w, h) ==
    [id |-> id, page |-> page, x |-> I(x), y |-> I(y), width |-> I(w), height |-> I(h)]

\* listForPage(pageId), listConnectionsForPage(pageId)
ListForPage(store, p) == SelectSeq(store, LAMBDA a : a.page = p)

\* create(fields) -> Annotation
StoreCreate(store, id, p, box) ==
    Append(store, [id |-> id, page |-> p, x |-> box.x, y |-> box.y,
                   width |-> box.width, height |-> box.height])

\* delete(id): the annotation goes, and with it the connections that end at it
StoreDeleteAnn(store, id) == SelectSeq(store, LAMBDA a : a.id # id)
StoreDeleteConns(store, id) == SelectSeq(store, LAMBDA c : c.from # id /\ c.to # id)

\* a request in flight
Request(op, p, id, box, snap) ==
    [op |-> op, page |-> p, id |-> id, box |-> box, snap |-> snap]

\* what a handler's catch block did with a failed request: console.error(...)
\* writes to the console and nothing is shown on the page
Caught(r) == <<[op |-> r.op, id |-> r.id, box |-> r.box, shown |-> FALSE]>>

RemoveAt(s, i) == [k \in 1..(Len(s) - 1) |-> IF k < i THEN s[k] ELSE s[k + 1]]

----------------------------------------------------------------------------
(* Initial state: the document's pages have loaded, the first page is shown, *)
(* the canvas is created; the page's image and its annotation lists are      *)
(* being fetched.  The store already holds annotations and connections.      *)

InitAnns ==
    << Ann(1, 1, 120, 140, 40, 40), Ann(2, 1, 140, 150, 40, 40), Ann(3, 1, 400, 400, 80, 80),
       Ann(4, 2, 10, 10, 50, 50) >>

InitConns ==
    << [id |-> 1, page |-> 1, from |-> 1, to |-> 2],
       [id |-> 2, page |-> 1, from |-> 2, to |-> 3] >>

Init ==
    /\ container = ContainerSize
    /\ pageImage \in Documents
    /\ bgImage = <<>>
    /\ imgPending = {1}
    /\ vpt = Identity
    /\ zoom = I(1)
    /\ zoomOps = 0
    /\ panMoves = 0
    /\ tool = "select"
    /\ isDrawing = FALSE
    /\ drawStart = <<>>
    /\ tempRect = <<>>
    /\ draws = 0
    /\ lastDraw = <<>>
    /\ lastClick = <<>>
    /\ lineClicks = <<>>
    /\ drag = <<>>
    /\ lastError = <<>>
    /\ panning = FALSE
    /\ lastPos = <<0, 0>>
    /\ objects = <<>>
    /\ activeObject = 0
    /\ currentPage = 1
    /\ annotations = <<>>
    /\ connections = <<>>
    /\ selectedAnnotation = <<>>
    /\ selInList = FALSE
    /\ detecting = FALSE
    /\ inflight = <<Request("list", 1, 0, ZeroBox, <<>>)>>
    /\ srvAnns = InitAnns
    /\ srvConns = InitConns
    /\ nextId = 5
    /\ token = TRUE
    /\ history = <<"/annotate/1">>
    /\ screen = "Annotator"

----------------------------------------------------------------------------
(* CanvasViewer: image load, zoom *)

\* fabric.Image.fromURL callback for page p's image; ok = FALSE: no img.width
ImageLoaded(p, ok) ==
    /\ p \in imgPending
    /\ imgPending' = imgPending \ {p}
    /\ IF ok
       THEN LET img == FitImage(container, pageImage[p])
            IN  /\ bgImage' = <<img>>
                /\ zoom' = img.scale
       ELSE UNCHANGED <<bgImage, zoom>>
    /\ UNCHANGED <<container, pageImage, vpt, zoomOps, panMoves, tool, objects,
                   activeObject, inflight>>
    /\ UNCHANGED <<gestureVars, pageVars, storeVars>>
    /\ lastClick' = <<>>
    /\ lineClicks' = <<>>
    /\ drag' = <<>>
    /\ lastError' = <<>>
    /\ screen = "Annotator" /\ UNCHANGED routeVars
    /\ UNCHANGED detecting

\* window 'resize': handleResize sets the canvas dimensions to the wrapper's
Resize(c) ==
    /\ c \in Containers
    /\ c # container
    /\ container' = c
    /\ UNCHANGED <<pageImage, bgImage, imgPending, vpt, zoom, zoomOps, panMoves, tool,
                   objects, activeObject, inflight>>
    /\ UNCHANGED <<gestureVars, pageVars, storeVars>>
    /\ lastClick' = <<>>
    /\ lineClicks' = <<>>
    /\ drag' = <<>>
    /\ lastError' = <<>>
    /\ screen = "Annotator" /\ UNCHANGED routeVars
    /\ UNCHANGED detecting

\* 'mouse:wheel' at canvas-element position P; out: deltaY > 0
Wheel(P, out) ==
    /\ zoomOps < MaxZoomOps
    /\ LET raw == RMul(vpt.z, IF out THEN WheelOut ELSE WheelIn)
           newZoom == RMin(RMax(raw, MinZoom), MaxZoom)
           pointer == GetPointer(P, vpt)
       IN  /\ vpt' = ZoomToPoint(vpt, pointer, newZoom)
           /\ zoom' = newZoom
    /\ zoomOps' = zoomOps + 1
    /\ UNCHANGED <<container, pageImage, bgImage, imgPending, panMoves, tool, objects,
                   activeObject, inflight>>
    /\ UNCHANGED <<gestureVars, pageVars, storeVars>>
    /\ lastClick' = <<>>
    /\ lineClicks' = <<>>
    /\ drag' = <<>>
    /\ lastError' = <<>>
    /\ screen = "Annotator" /\ UNCHANGED routeVars
    /\ UNCHANGED detecting

handleZoomIn ==
    /\ zoomOps < MaxZoomOps
    /\ LET newZoom == RMin(RMul(zoom, ButtonStep), MaxZoom)
       IN  /\ vpt' = SetZoom(vpt, newZoom)
           /\ zoom' = newZoom
    /\ zoomOps' = zoomOps + 1
    /\ UNCHANGED <<container, pageImage, bgImage, imgPending, panMoves, tool, objects,
                   activeObject, inflight>>
    /\ UNCHANGED <<gestureVars, pageVars, storeVars>>
    /\ lastClick' = <<>>
    /\ lineClicks' = <<>>
    /\ drag' = <<>>
    /\ lastError' = <<>>
    /\ screen = "Annotator" /\ UNCHANGED routeVars
    /\ UNCHANGED detecting

handleZoomOut ==
    /\ zoomOps < MaxZoomOps
    /\ LET newZoom == RMax(RDiv(zoom, ButtonStep), MinZoom)
       IN  /\ vpt' = SetZoom(vpt, newZoom)
           /\ zoom' = newZoom
    /\ zoomOps' = zoomOps + 1
    /\ UNCHANGED <<container, pageImage, bgImage, imgPending, panMoves, tool, objects,
                   activeObject, inflight>>
    /\ UNCHANGED <<gestureVars, pageVars, storeVars>>
    /\ lastClick' = <<>>
    /\ lineClicks' = <<>>
    /\ drag' = <<>>
    /\ lastError' = <<>>
    /\ screen = "Annotator" /\ UNCHANGED routeVars
    /\ UNCHANGED detecting

handleResetZoom ==
    /\ vpt' = Identity
    /\ zoom' = I(1)
    /\ UNCHANGED <<container, pageImage, bgImage, imgPending, zoomOps, panMoves, tool,
                   objects, activeObject, inflight>>
    /\ UNCHANGED <<gestureVars, pageVars, storeVars>>
    /\ lastClick' = <<>>
    /\ lineClicks' = <<>>
    /\ drag' = <<>>
    /\ lastError' = <<>>
    /\ screen = "Annotator" /\ UNCHANGED routeVars
    /\ UNCHANGED detecting

----------------------------------------------------------------------------
(* CanvasViewer: mouse handlers *)

TempObject(g) == [name |-> "temp", id |-> 0, g |-> g]

\* index of the temp rect the tempRect state refers to: the last one added
LastTemp(objs) ==
    CHOOSE i \in 1..Len(objs) :
        objs[i].name = "temp" /\ \A j \in (i + 1)..Len(objs) : objs[j].name # "temp"

\* 'mouse:down' at P; pan: middle button, alt key or space key.
\* fabric first settles its target and active object and fires 'selected',
\* then handleMouseDown runs.  A changed selection re-renders the Annotator:
\* the render effect redraws the overlays (the active rect is removed with
\* them) and the mouse effect restarts with panning = false.
MouseDown(P, pan) ==
    LET q == GetPointer(P, vpt)
        t == FindTarget(objects, q, tool, activeObject)
        selectable == t # 0 /\ objects[t].name = "annotation" /\ tool = "select"
        fresh == selectable /\ objects[t].id # activeObject
        ann == FindAnn(annotations, objects[t].id)
        changed == fresh /\ (selectedAnnotation # ann \/ ~selInList)
        draw == ~pan /\ tool = "rectangle"
    IN  /\ draw => draws < MaxDraws
        /\ IF changed
           THEN /\ selectedAnnotation' = ann
                /\ selInList' = TRUE
                /\ activeObject' = 0
           ELSE /\ UNCHANGED <<selectedAnnotation, selInList>>
                /\ activeObject' = IF selectable THEN objects[t].id ELSE 0
        /\ panning' = (pan /\ ~changed)
        /\ lastPos' = IF pan /\ ~changed THEN P ELSE <<0, 0>>
        /\ IF draw
           THEN /\ isDrawing' = TRUE
                /\ drawStart' = <<q>>
                /\ tempRect' = <<<<q[1], q[2], I(0), I(0)>>>>
                /\ objects' = Append(objects, TempObject(<<q[1], q[2], I(0), I(0)>>))
                /\ draws' = draws + 1
           ELSE /\ UNCHANGED <<isDrawing, drawStart, tempRect, draws>>
                /\ objects' = IF changed
                              THEN RenderEffect(annotations, connections, bgImage, objects)
                              ELSE objects
        /\ lastClick' = IF ~pan /\ tool = "select" THEN <<P>> ELSE <<>>
        /\ lineClicks' = IF ~pan /\ tool = "line" /\ t # 0 /\ objects[t].name = "annotation"
                          THEN IF Len(lineClicks) = 1
                               THEN Append(lineClicks, objects[t].id)
                               ELSE <<objects[t].id>>
                          ELSE <<>>
        /\ drag' = IF pan THEN <<[start |-> P, at |-> P, vpt |-> vpt]>> ELSE <<>>
        /\ lastError' = <<>>
        /\ screen = "Annotator" /\ UNCHANGED routeVars
        /\ UNCHANGED detecting
        /\ UNCHANGED <<canvasVars, tool, lastDraw, currentPage, annotations, connections,
                       inflight>>
        /\ UNCHANGED storeVars

\* the drag record after the pointer moved to P
DragTo(P) == IF drag = <<>> THEN <<>> ELSE <<[drag[1] EXCEPT !.at = P]>>

\* a faulty 'mouse:move': the temp rect keeps the start point as its corner
MouseMoveFromStart(P) ==
    IF panning
    THEN /\ panMoves < MaxPanMoves
         /\ vpt' = [vpt EXCEPT !.tx = RAdd(@, I(P[1] - lastPos[1])),
                               !.ty = RAdd(@, I(P[2] - lastPos[2]))]
         /\ lastPos' = P
         /\ panMoves' = panMoves + 1
         /\ UNCHANGED <<container, pageImage, bgImage, imgPending, zoom, zoomOps, tool,
                        isDrawing, drawStart, tempRect, draws, lastDraw, panning, objects,
                        activeObject, inflight>>
         /\ UNCHANGED <<pageVars, storeVars>>
         /\ lastClick' = <<>>
         /\ lineClicks' = <<>>
         /\ drag' = DragTo(P)
         /\ lastError' = <<>>
         /\ screen = "Annotator" /\ UNCHANGED routeVars
         /\ UNCHANGED detecting
    ELSE IF ~(isDrawing /\ tempRect # <<>> /\ drawStart # <<>>)
    THEN /\ drag # <<>>
         /\ drag' = DragTo(P)
         /\ UNCHANGED <<canvasVars, gestureVars, tool, objects, activeObject, inflight>>
         /\ UNCHANGED <<pageVars, storeVars>>
         /\ lastClick' = <<>>
         /\ lineClicks' = <<>>
         /\ lastError' = <<>>
         /\ screen = "Annotator" /\ UNCHANGED routeVars
         /\ UNCHANGED detecting
    ELSE /\ LET pointer == GetPointer(P, vpt)
                start == drawStart[1]
                width == RSub(pointer[1], start[1])
                height == RSub(pointer[2], start[2])
                g == <<start[1], start[2], RAbs(width), RAbs(height)>>
            IN  /\ tempRect' = <<g>>
                /\ objects' = [objects EXCEPT ![LastTemp(objects)] = TempObject(g)]
         /\ UNCHANGED <<canvasVars, tool, isDrawing, drawStart, draws, lastDraw, panning,
                        lastPos, activeObject, inflight>>
         /\ UNCHANGED <<pageVars, storeVars>>
         /\ lastClick' = <<>>
         /\ lineClicks' = <<>>
         /\ drag' = DragTo(P)
         /\ lastError' = <<>>
         /\ screen = "Annotator" /\ UNCHANGED routeVars
         /\ UNCHANGED detecting

\* 'mouse:move' to P
MouseMove(P) ==
    IF panning
    THEN /\ panMoves < MaxPanMoves
         /\ vpt' = [vpt EXCEPT !.tx = RAdd(@, I(P[1] - lastPos[1])),
                               !.ty = RAdd(@, I(P[2] - lastPos[2]))]
         /\ lastPos' = P
         /\ panMoves' = panMoves + 1
         /\ UNCHANGED <<container, pageImage, bgImage, imgPending, zoom, zoomOps, tool,
                        isDrawing, drawStart, tempRect, draws, lastDraw, panning, objects,
                        activeObject, inflight>>
         /\ UNCHANGED <<pageVars, storeVars>>
         /\ lastClick' = <<>>
         /\ lineClicks' = <<>>
         /\ drag' = DragTo(P)
         /\ lastError' = <<>>
         /\ screen = "Annotator" /\ UNCHANGED routeVars
         /\ UNCHANGED detecting
    ELSE IF ~(isDrawing /\ tempRect # <<>> /\ drawStart # <<>>)
    THEN /\ drag # <<>>
         /\ drag' = DragTo(P)
         /\ UNCHANGED <<canvasVars, gestureVars, tool, objects, activeObject, inflight>>
         /\ UNCHANGED <<pageVars, storeVars>>
         /\ lastClick' = <<>>
         /\ lineClicks' = <<>>
         /\ lastError' = <<>>
         /\ screen = "Annotator" /\ UNCHANGED routeVars
         /\ UNCHANGED detecting
    ELSE /\ LET pointer == GetPointer(P, vpt)
                start == drawStart[1]
                width == RSub(pointer[1], start[1])
                height == RSub(pointer[2], start[2])
                g == << IF RGt(width, I(0)) THEN start[1] ELSE pointer[1],
                        IF RGt(height, I(0)) THEN start[2] ELSE pointer[2],
                        RAbs(width), RAbs(height) >>
            IN  /\ tempRect' = <<g>>
                /\ objects' = [objects EXCEPT ![LastTemp(objects)] = TempObject(g)]
         /\ UNCHANGED <<canvasVars, tool, isDrawing, drawStart, draws, lastDraw, panning,
                        lastPos, activeObject, inflight>>
         /\ UNCHANGED <<pageVars, storeVars>>
         /\ lastClick' = <<>>
         /\ lineClicks' = <<>>
         /\ drag' = DragTo(P)
         /\ lastError' = <<>>
         /\ screen = "Annotator" /\ UNCHANGED routeVars
         /\ UNCHANGED detecting

\* Annotator.handleAnnotationCreate up to its await: the request is issued with
\* the annotation list of the render the handler belongs to
handleAnnotationCreate(box) ==
    Append(inflight, Request("create", currentPage, 0, box, annotations))

\* a faulty 'mouse:up': the end of a draw gesture puts the viewport back
handleMouseUpResetView ==
    IF panning
    THEN /\ panning' = FALSE
         /\ UNCHANGED <<canvasVars, tool, isDrawing, drawStart, tempRect, draws, lastDraw,
                        lastPos, objects, activeObject, inflight>>
         /\ UNCHANGED <<pageVars, storeVars>>
         /\ lastClick' = <<>>
         /\ lineClicks' = <<>>
         /\ drag' = <<>>
         /\ lastError' = <<>>
         /\ screen = "Annotator" /\ UNCHANGED routeVars
         /\ UNCHANGED detecting
    ELSE IF ~(isDrawing /\ tempRect # <<>> /\ drawStart # <<>>)
    THEN /\ drag # <<>>
         /\ drag' = <<>>
         /\ UNCHANGED <<canvasVars, gestureVars, tool, objects, activeObject, inflight>>
         /\ UNCHANGED <<pageVars, storeVars>>
         /\ lastClick' = <<>>
         /\ lineClicks' = <<>>
         /\ lastError' = <<>>
         /\ screen = "Annotator" /\ UNCHANGED routeVars
         /\ UNCHANGED detecting
    ELSE IF bgImage = <<>>
    THEN /\ UNCHANGED <<canvasVars, gestureVars, tool, objects, activeObject, inflight>>
         /\ UNCHANGED <<pageVars, storeVars>>
         /\ lastClick' = <<>>
         /\ lineClicks' = <<>>
         /\ drag' = <<>>
         /\ lastError' = <<>>
         /\ screen = "Annotator" /\ UNCHANGED routeVars
         /\ UNCHANGED detecting
    ELSE /\ LET box == PageBox(tempRect[1], bgImage[1])
            IN  /\ objects' = RemoveAt(objects, LastTemp(objects))
                /\ tempRect' = <<>>
                /\ isDrawing' = FALSE
                /\ drawStart' = <<>>
                /\ inflight' = IF BigEnough(box) THEN handleAnnotationCreate(box)
                               ELSE inflight
                /\ lastDraw' = <<[rect |-> tempRect[1], bg |-> bgImage[1], box |-> box,
                                  emitted |-> BigEnough(box)]>>
         /\ vpt' = Identity
         /\ UNCHANGED <<container, pageImage, bgImage, imgPending, zoom, zoomOps, panMoves>>
         /\ UNCHANGED <<tool, draws, panning, lastPos, activeObject>>
         /\ UNCHANGED <<pageVars, storeVars>>
         /\ lastClick' = <<>>
         /\ lineClicks' = <<>>
         /\ drag' = <<>>
         /\ lastError' = <<>>
         /\ screen = "Annotator" /\ UNCHANGED routeVars
         /\ UNCHANGED detecting

\* 'mouse:up'
handleMouseUp ==
    IF panning
    THEN /\ panning' = FALSE
         /\ UNCHANGED <<canvasVars, tool, isDrawing, drawStart, tempRect, draws, lastDraw,
                        lastPos, objects, activeObject, inflight>>
         /\ UNCHANGED <<pageVars, storeVars>>
         /\ lastClick' = <<>>
         /\ lineClicks' = <<>>
         /\ drag' = <<>>
         /\ lastError' = <<>>
         /\ screen = "Annotator" /\ UNCHANGED routeVars
         /\ UNCHANGED detecting
    ELSE IF ~(isDrawing /\ tempRect # <<>> /\ drawStart # <<>>)
    THEN /\ drag # <<>>
         /\ drag' = <<>>
         /\ UNCHANGED <<canvasVars, gestureVars, tool, objects, activeObject, inflight>>
         /\ UNCHANGED <<pageVars, storeVars>>
         /\ lastClick' = <<>>
         /\ lineClicks' = <<>>
         /\ lastError' = <<>>
         /\ screen = "Annotator" /\ UNCHANGED routeVars
         /\ UNCHANGED detecting
    ELSE IF bgImage = <<>>
    THEN /\ UNCHANGED <<canvasVars, gestureVars, tool, objects, activeObject, inflight>>
         /\ UNCHANGED <<pageVars, storeVars>>
         /\ lastClick' = <<>>
         /\ lineClicks' = <<>>
         /\ drag' = <<>>
         /\ lastError' = <<>>
         /\ screen = "Annotator" /\ UNCHANGED routeVars
         /\ UNCHANGED detecting
    ELSE /\ LET box == PageBox(tempRect[1], bgImage[1])
            IN  /\ objects' = RemoveAt(objects, LastTemp(objects))
                /\ tempRect' = <<>>
                /\ isDrawing' = FALSE
                /\ drawStart' = <<>>
                /\ inflight' = IF BigEnough(box) THEN handleAnnotationCreate(box)
                               ELSE inflight
                /\ lastDraw' = <<[rect |-> tempRect[1], bg |-> bgImage[1], box |-> box,
                                  emitted |-> BigEnough(box)]>>
         /\ UNCHANGED <<canvasVars, tool, draws, panning, lastPos, activeObject>>
         /\ UNCHANGED <<pageVars, storeVars>>
         /\ lastClick' = <<>>
         /\ lineClicks' = <<>>
         /\ drag' = <<>>
         /\ lastError' = <<>>
         /\ screen = "Annotator" /\ UNCHANGED routeVars
         /\ UNCHANGED detecting

----------------------------------------------------------------------------
(* Annotator *)

\* Toolbar onToolChange
SetTool(t) ==
    /\ t # tool
    /\ tool' = t
    /\ objects' = RenderEffect(annotations, connections, bgImage, objects)
    /\ activeObject' = 0
    /\ panning' = FALSE
    /\ lastPos' = <<0, 0>>
    /\ UNCHANGED <<canvasVars, isDrawing, drawStart, tempRect, draws, lastDraw, inflight>>
    /\ UNCHANGED <<pageVars, storeVars>>
    /\ lastClick' = <<>>
    /\ lineClicks' = <<>>
    /\ drag' = <<>>
    /\ lastError' = <<>>
    /\ screen = "Annotator" /\ UNCHANGED routeVars
    /\ UNCHANGED detecting

\* previous / next page button; the page effect calls loadPageAnnotations and
\* the image effect starts loading the new page's image.  The button is
\* pressed with fewer than `busy` requests in flight.
SetPage(p, busy) ==
    /\ p \in Pages
    /\ p = currentPage + 1 \/ p = currentPage - 1
    /\ Len(inflight) < busy
    /\ currentPage' = p
    /\ inflight' = Append(inflight, Request("list", p, 0, ZeroBox, <<>>))
    /\ imgPending' = imgPending \cup {p}
    /\ panning' = FALSE
    /\ lastPos' = <<0, 0>>
    /\ UNCHANGED <<container, pageImage, bgImage, vpt, zoom, zoomOps, panMoves, tool,
                   isDrawing, drawStart, tempRect, draws, lastDraw, objects, activeObject,
                   annotations, connections, selectedAnnotation, selInList>>
    /\ UNCHANGED storeVars
    /\ lastClick' = <<>>
    /\ lineClicks' = <<>>
    /\ drag' = <<>>
    /\ lastError' = <<>>
    /\ screen = "Annotator" /\ UNCHANGED routeVars
    /\ UNCHANGED detecting

\* loadPageAnnotations after its await.  A "reload" is the call that
\* handleAutoDetect awaits: when it returns, with the lists set or the error
\* caught, handleAutoDetect's finally block runs setDetecting(false).
CompleteList(i, ok) ==
    /\ i \in 1..Len(inflight)
    /\ inflight[i].op \in {"list", "reload"}
    /\ inflight' = RemoveAt(inflight, i)
    /\ IF ok
       THEN /\ annotations' = ListForPage(srvAnns, inflight[i].page)
            /\ connections' = ListForPage(srvConns, inflight[i].page)
            /\ selInList' = FALSE
            /\ objects' = RenderEffect(annotations', connections', bgImage, objects)
            /\ activeObject' = 0
            /\ panning' = FALSE
            /\ lastPos' = <<0, 0>>
       ELSE /\ UNCHANGED <<annotations, connections, selInList, objects, activeObject>>
            /\ panning' = IF inflight[i].op = "reload" THEN FALSE ELSE panning
            /\ lastPos' = IF inflight[i].op = "reload" THEN <<0, 0>> ELSE lastPos
    /\ UNCHANGED <<canvasVars, tool, isDrawing, drawStart, tempRect, draws, lastDraw, currentPage,
                   selectedAnnotation>>
    /\ UNCHANGED storeVars
    /\ lastClick' = <<>>
    /\ lineClicks' = <<>>
    /\ UNCHANGED drag
    /\ lastError' = IF ok THEN <<>> ELSE Caught(inflight[i])
    /\ screen = "Annotator" /\ UNCHANGED routeVars
    /\ detecting' = IF inflight[i].op = "reload" THEN FALSE ELSE detecting

\* handleAnnotationCreate after its await
CompleteCreate(i, ok) ==
    /\ i \in 1..Len(inflight)
    /\ inflight[i].op = "create"
    /\ inflight' = RemoveAt(inflight, i)
    /\ IF ok
       THEN LET r == inflight[i]
                store == StoreCreate(srvAnns, nextId, r.page, r.box)
                newAnnotation == store[Len(store)]
            IN  /\ srvAnns' = store
                /\ nextId' = nextId + 1
                /\ annotations' = Append(r.snap, newAnnotation)
                /\ selectedAnnotation' = <<newAnnotation>>
                /\ selInList' = TRUE
                /\ objects' = RenderEffect(annotations', connections, bgImage, objects)
                /\ activeObject' = 0
                /\ panning' = FALSE
                /\ lastPos' = <<0, 0>>
       ELSE UNCHANGED <<srvAnns, nextId, annotations, selectedAnnotation, selInList,
                        objects, activeObject, panning, lastPos>>
    /\ UNCHANGED <<canvasVars, tool, isDrawing, drawStart, tempRect, draws, lastDraw, currentPage,
                   connections, srvConns>>
    /\ lastClick' = <<>>
    /\ lineClicks' = <<>>
    /\ UNCHANGED drag
    /\ lastError' = IF ok THEN <<>> ELSE Caught(inflight[i])
    /\ screen = "Annotator" /\ UNCHANGED routeVars
    /\ UNCHANGED detecting

\* Annotator.handleConnectionCreate up to its await.  CanvasViewer receives it
\* as onConnectionCreate and has no call of it.
handleConnectionCreate(fromId, toId) ==
    Append(inflight, [op |-> "connect", page |-> currentPage, id |-> 0, box |-> ZeroBox,
                      snap |-> connections, from |-> fromId, to |-> toId])

\* AnnotationPanel "Delete Annotation" (confirmed): Annotator.handleAnnotationDelete
\* up to its await
handleAnnotationDelete ==
    /\ selectedAnnotation # <<>>
    /\ Len(inflight) < MaxInflight
    /\ inflight' = Append(inflight, Request("delete", currentPage,
                                            selectedAnnotation[1].id, ZeroBox, annotations))
    /\ UNCHANGED <<canvasVars, tool, objects, activeObject>>
    /\ UNCHANGED <<gestureVars, pageVars, storeVars>>
    /\ lastClick' = <<>>
    /\ lineClicks' = <<>>
    /\ drag' = <<>>
    /\ lastError' = <<>>
    /\ screen = "Annotator" /\ UNCHANGED routeVars
    /\ UNCHANGED detecting

\* handleAnnotationDelete after its await; the store refuses an unknown id
CompleteDelete(i, ok) ==
    /\ i \in 1..Len(inflight)
    /\ inflight[i].op = "delete"
    /\ ok => FindAnn(srvAnns, inflight[i].id) # <<>>
    /\ inflight' = RemoveAt(inflight, i)
    /\ IF ok
       THEN LET r == inflight[i]
            IN  /\ srvAnns' = StoreDeleteAnn(srvAnns, r.id)
                /\ srvConns' = StoreDeleteConns(srvConns, r.id)
                /\ annotations' = SelectSeq(r.snap, LAMBDA a : a.id # r.id)
                /\ selectedAnnotation' = <<>>
                /\ selInList' = FALSE
                /\ objects' = RenderEffect(annotations', connections, bgImage, objects)
                /\ activeObject' = 0
                /\ panning' = FALSE
                /\ lastPos' = <<0, 0>>
       ELSE UNCHANGED <<srvAnns, srvConns, annotations, selectedAnnotation, selInList,
                        objects, activeObject, panning, lastPos>>
    /\ UNCHANGED <<canvasVars, tool, isDrawing, drawStart, tempRect, draws, lastDraw, currentPage,
                   connections, nextId>>
    /\ lastClick' = <<>>
    /\ lineClicks' = <<>>
    /\ UNCHANGED drag
    /\ lastError' = IF ok THEN <<>> ELSE Caught(inflight[i])
    /\ screen = "Annotator" /\ UNCHANGED routeVars
    /\ UNCHANGED detecting

\* the box of an annotation that auto-annotate detects
DetectedBox == [x |-> I(200), y |-> I(220), width |-> I(30), height |-> I(30)]

\* what a handler's catch block did with a failed request: alert(...)
Alerted(r) == <<[op |-> r.op, id |-> r.id, box |-> r.box, shown |-> TRUE]>>

\* the AI Auto-Detect button (disabled while detecting): handleAutoDetect up
\* to its first await
handleAutoDetect ==
    /\ ~detecting
    /\ Len(inflight) <= MaxInflight
    /\ detecting' = TRUE
    /\ inflight' = Append(inflight, Request("detect", currentPage, 0, ZeroBox, <<>>))
    /\ panning' = FALSE
    /\ lastPos' = <<0, 0>>
    /\ UNCHANGED <<canvasVars, tool, isDrawing, drawStart, tempRect, draws, lastDraw, objects,
                   activeObject>>
    /\ UNCHANGED <<pageVars, storeVars>>
    /\ lastClick' = <<>>
    /\ lineClicks' = <<>>
    /\ drag' = <<>>
    /\ lastError' = <<>>
    /\ screen = "Annotator" /\ UNCHANGED routeVars

\* a faulty handler: setDetecting(false) sits at the end of the try block, so
\* a failed detection leaves the flag set
CompleteDetectNoFinally(i, ok) ==
    /\ i \in 1..Len(inflight)
    /\ inflight[i].op = "detect"
    /\ IF ok
       THEN \E n \in 0..MaxDetected :
                /\ n > 0 => nextId <= Len(InitAnns) + MaxDetected
                /\ srvAnns' = IF n = 0 THEN srvAnns
                              ELSE StoreCreate(srvAnns, nextId, inflight[i].page, DetectedBox)
                /\ nextId' = nextId + n
                /\ inflight' = Append(RemoveAt(inflight, i),
                                      Request("reload", inflight[i].page, 0, ZeroBox, <<>>))
                /\ lastError' = <<>>
                /\ UNCHANGED <<detecting, panning, lastPos>>
       ELSE /\ inflight' = RemoveAt(inflight, i)
            /\ lastError' = Alerted(inflight[i])
            /\ UNCHANGED <<detecting, panning, lastPos>>
            /\ UNCHANGED <<srvAnns, nextId>>
    /\ UNCHANGED <<canvasVars, tool, isDrawing, drawStart, tempRect, draws, lastDraw, objects,
                   activeObject, srvConns>>
    /\ UNCHANGED pageVars
    /\ lastClick' = <<>>
    /\ lineClicks' = <<>>
    /\ UNCHANGED drag
    /\ screen = "Annotator" /\ UNCHANGED routeVars

\* handleAutoDetect after `await inferenceApi.autoAnnotate(id, currentPage)`.
\* On success the store has added what it detected, the handler alerts and
\* calls loadPageAnnotations of the render it belongs to; on failure it alerts
\* and its finally block runs setDetecting(false).
CompleteDetect(i, ok) ==
    /\ i \in 1..Len(inflight)
    /\ inflight[i].op = "detect"
    /\ IF ok
       THEN \E n \in 0..MaxDetected :
                /\ n > 0 => nextId <= Len(InitAnns) + MaxDetected
                /\ srvAnns' = IF n = 0 THEN srvAnns
                              ELSE StoreCreate(srvAnns, nextId, inflight[i].page, DetectedBox)
                /\ nextId' = nextId + n
                /\ inflight' = Append(RemoveAt(inflight, i),
                                      Request("reload", inflight[i].page, 0, ZeroBox, <<>>))
                /\ lastError' = <<>>
                /\ UNCHANGED <<detecting, panning, lastPos>>
       ELSE /\ inflight' = RemoveAt(inflight, i)
            /\ lastError' = Alerted(inflight[i])
            /\ detecting' = FALSE
            /\ panning' = FALSE
            /\ lastPos' = <<0, 0>>
            /\ UNCHANGED <<srvAnns, nextId>>
    /\ UNCHANGED <<canvasVars, tool, isDrawing, drawStart, tempRect, draws, lastDraw, objects,
                   activeObject, srvConns>>
    /\ UNCHANGED pageVars
    /\ lastClick' = <<>>
    /\ lineClicks' = <<>>
    /\ UNCHANGED drag
    /\ screen = "Annotator" /\ UNCHANGED routeVars

----------------------------------------------------------------------------
(* App: routes *)

\* the locations a user may ask for; "/settings" stands for any path without a route
AnnotatePaths == {"/annotate/1", "/annotate/2"}
Paths == {"/login", "/", "/settings"} \cup AnnotatePaths

\* isAuthenticated
isAuthenticated(tok) == tok

\* a faulty route table: the pages are handed out without looking at the token
RouteElementOpen(path, tok) ==
    IF path = "/login"
    THEN IF isAuthenticated(tok) THEN [page |-> "", to |-> "/"]
         ELSE [page |-> "Login", to |-> ""]
    ELSE IF path = "/"
    THEN [page |-> "Dashboard", to |-> ""]
    ELSE IF path \in AnnotatePaths
    THEN [page |-> "Annotator", to |-> ""]
    ELSE [page |-> "", to |-> "/"]

\* <Routes>: what the route matching path renders, a page or a <Navigate to>
RouteElement(path, tok) ==
    IF path = "/login"
    THEN IF isAuthenticated(tok) THEN [page |-> "", to |-> "/"]
         ELSE [page |-> "Login", to |-> ""]
    ELSE IF path = "/"
    THEN IF ~isAuthenticated(tok) THEN [page |-> "", to |-> "/login"]
         ELSE [page |-> "Dashboard", to |-> ""]
    ELSE IF path \in AnnotatePaths
    THEN IF ~isAuthenticated(tok) THEN [page |-> "", to |-> "/login"]
         ELSE [page |-> "Annotator", to |-> ""]
    ELSE [page |-> "", to |-> "/"]

\* the location at which the router comes to rest: each <Navigate replace>
\* puts its target in the place of the location that rendered it
RECURSIVE Settle(_, _)
Settle(path, tok) ==
    LET r == RouteElement(path, tok)
    IN  IF r.to # "" THEN Settle(r.to, tok) ELSE path

\* a page element is mounted with the state its useState calls give it; the
\* state of a page that is not on screen does not exist and is kept at
\* those values
Mount ==
    /\ container' = ContainerSize
    /\ pageImage' \in Documents
    /\ bgImage' = <<>>
    /\ imgPending' = {1}
    /\ vpt' = Identity
    /\ zoom' = I(1)
    /\ zoomOps' = 0
    /\ panMoves' = 0
    /\ tool' = "select"
    /\ isDrawing' = FALSE
    /\ drawStart' = <<>>
    /\ tempRect' = <<>>
    /\ draws' = 0
    /\ lastDraw' = <<>>
    /\ lastClick' = <<>>
    /\ lineClicks' = <<>>
    /\ drag' = <<>>
    /\ lastError' = <<>>
    /\ panning' = FALSE
    /\ lastPos' = <<0, 0>>
    /\ objects' = <<>>
    /\ activeObject' = 0
    /\ currentPage' = 1
    /\ annotations' = <<>>
    /\ connections' = <<>>
    /\ selectedAnnotation' = <<>>
    /\ selInList' = FALSE
    /\ detecting' = FALSE
    /\ inflight' = <<Request("list", 1, 0, ZeroBox, <<>>)>>
    /\ UNCHANGED storeVars

\* the router renders the location asked for, with token tok in localStorage;
\* push: the location is a new history entry, otherwise it replaces the last
Go(path, tok, push) ==
    LET at == Settle(path, tok)
    IN  /\ token' = tok
        /\ history' = IF push THEN Append(history, at)
                      ELSE [history EXCEPT ![Len(history)] = at]
        /\ screen' = RouteElement(at, tok).page
        /\ Mount

\* the user opens a location of the application in the tab
Visit(path) ==
    /\ Len(history) < MaxHistory
    /\ Go(path, token, TRUE)

\* the browser's back button
Back ==
    /\ Len(history) > 1
    /\ LET at == Settle(history[Len(history) - 1], token)
       IN  /\ history' = Append(SubSeq(history, 1, Len(history) - 2), at)
           /\ screen' = RouteElement(at, token).page
           /\ UNCHANGED token
           /\ Mount

\* Login.handleSubmit with a successful authApi.login: the token is stored,
\* then navigate('/')
LoginOk ==
    /\ screen = "Login"
    /\ Len(history) < MaxHistory
    /\ Go("/", TRUE, TRUE)

\* authApi.logout, the Dashboard's logout button
Logout ==
    /\ screen = "Dashboard"
    /\ Len(history) < MaxHistory
    /\ Go("/login", FALSE, TRUE)

\* apiRequest on a 401 response to a request of the page on screen
Unauthorized ==
    /\ screen \in {"Dashboard", "Annotator"}
    /\ Len(history) < MaxHistory
    /\ Go("/login", FALSE, TRUE)

\* Dashboard: a document card is clicked, navigate(`/annotate/${doc.id}`)
OpenDocument(path) ==
    /\ screen = "Dashboard"
    /\ path \in AnnotatePaths
    /\ Len(history) < MaxHistory
    /\ Go(path, token, TRUE)

\* Annotator: the back button, or loadDocument's catch block: navigate('/')
LeaveDocument ==
    /\ screen = "Annotator"
    /\ Len(history) < MaxHistory
    /\ Go("/", token, TRUE)

----------------------------------------------------------------------------
(* Specifications *)

ZoomNext ==
    \/ \E P \in ViewPoints, out \in BOOLEAN : Wheel(P, out)
    \/ handleZoomIn
    \/ handleZoomOut
    \/ handleResetZoom

WheelInNext ==
    \E P \in ViewPoints : Wheel(P, FALSE)

PanNext ==
    \E P \in ViewPoints : MouseDown(P, TRUE)

ClickNext ==
    \E P \in ViewPoints : MouseDown(P, FALSE)

MouseNext ==
    \/ ClickNext
    \/ \E P \in ViewPoints : MouseMove(P)
    \/ handleMouseUp

DrawNext ==
    \/ \E P \in DrawPoints : MouseDown(P, FALSE)
    \/ \E P \in DrawPoints : MouseMove(P)
    \/ handleMouseUp

ToolNext ==
    \E t \in {"select", "rectangle", "line"} : SetTool(t)

ImageNext ==
    \E p \in Pages, ok \in BOOLEAN : ImageLoaded(p, ok)

ResizeNext ==
    \E c \in Containers : Resize(c)

ListNext ==
    \E i \in 1..MaxRequests, ok \in BOOLEAN : CompleteList(i, ok)

PageNext ==
    \/ \E p \in Pages : SetPage(p, MaxInflight)
    \/ \E i \in 1..MaxRequests, ok \in BOOLEAN : CompleteList(i, ok)

\* a page change that does not wait for the request in flight
QuickPageNext ==
    \E p \in Pages : SetPage(p, MaxInflight + 1)

\* a list response that succeeds
ListOkNext ==
    \E i \in 1..MaxRequests : CompleteList(i, TRUE)

DetectNext ==
    \/ handleAutoDetect
    \/ \E i \in 1..MaxRequests, ok \in BOOLEAN : CompleteDetect(i, ok)

CreateNext ==
    \E i \in 1..MaxRequests, ok \in BOOLEAN : CompleteCreate(i, ok)

DeleteNext ==
    \/ handleAnnotationDelete
    \/ \E i \in 1..MaxRequests, ok \in BOOLEAN : CompleteDelete(i, ok)

RouteNext ==
    \/ \E path \in Paths : Visit(path)
    \/ Back
    \/ LoginOk
    \/ Logout
    \/ Unauthorized
    \/ \E path \in AnnotatePaths : OpenDocument(path)
    \/ LeaveDocument

\* the whole program
Next ==
    \/ ImageNext \/ ResizeNext \/ ToolNext \/ ZoomNext \/ PanNext \/ MouseNext
    \/ PageNext \/ ListNext \/ CreateNext \/ DeleteNext \/ DrawNext \/ RouteNext \/ QuickPageNext \/ ListOkNext \/ DetectNext
Program == Init /\ [][Next]_vars

\* the page: image and list loading, page change, selection by click and
\* deletion, with the select tool and the viewport transform left as created
Spec == Init /\ [][ImageNext \/ ClickNext \/ PageNext \/ DeleteNext]_vars

\* drawing under zoom: image fit, wheel and button zoom, the draw gesture
SpecView == Init /\ [][ImageNext \/ ToolNext \/ ZoomNext \/ MouseNext]_vars

\* zoom and pan: image fit, wheel and button zoom, pan drag, clicks
SpecZoom == Init /\ [][ImageNext \/ ZoomNext \/ PanNext \/ MouseNext]_vars

\* the tools under a zoomed viewport: image and list load, tool change, wheel
\* zoom in, clicks and the draw gesture
SpecFrame == Init /\ [][ImageNext \/ ListNext \/ ToolNext \/ WheelInNext \/ MouseNext]_vars

\* the pan drag: image and list load, pan 'mouse:down', clicks, moves, mouse up
SpecPan == Init /\ [][ImageNext \/ ListNext \/ PanNext \/ MouseNext]_vars

\* drawing in a resized window: image load, resize, tool change, draw gesture
SpecResize == Init /\ [][ImageNext \/ ResizeNext \/ ToolNext \/ DrawNext]_vars

\* the routes: locations opened, back button, login, logout, rejected token
SpecRoute == Init /\ [][RouteNext]_vars

\* editing a page: image and list load, tool change, clicks and the draw
\* gesture, create and delete requests and their completions
SpecEdit == Init /\ [][ImageNext \/ ListNext \/ ToolNext \/ MouseNext \/ CreateNext \/ DeleteNext]_vars

\* quick page changes: image loads, page changes with a list request still in
\* flight, list responses that all succeed
SpecPages == Init /\ [][ImageNext \/ QuickPageNext \/ ListOkNext]_vars

\* auto-detect: page changes that do not wait, list responses that succeed or
\* fail, the auto-detect button and the completions of its requests
SpecDetect == Init /\ [][QuickPageNext \/ ListNext \/ DetectNext]_vars

\* the draw gesture in every direction: image load, tool change, wheel zoom
\* in, mouse down, move and up
SpecDraw == Init /\ [][ImageNext \/ ToolNext \/ WheelInNext \/ DrawNext]_vars

\* the tools on a loaded page: image and list load, tool change, clicks
SpecLine == Init /\ [][ImageNext \/ ListNext \/ ToolNext \/ ClickNext]_vars

\* image fit: image loads, window resizes, page changes and list loads
SpecFit == Init /\ [][ImageNext \/ ResizeNext \/ PageNext]_vars

----------------------------------------------------------------------------
(* Properties *)

\* sample page points within the bounds of the loaded page image
PagePoints(bg) ==
    { <<I(0), I(0)>>, <<I(bg.width), I(0)>>, <<I(bg.width), I(bg.height)>>,
      <<Q(bg.width, 3), Q(bg.height, 7)>>, <<I(13), Q(20, 3)>> }

AnnotationObjects == {i \in 1..Len(objects) : objects[i].name = "annotation"}
ConnectionObjects == {i \in 1..Len(objects) : objects[i].name = "connection"}
CreateRequests == {i \in 1..Len(inflight) : inflight[i].op = "create"}

\* the annotation a create call with this box would add to the list
BoxAnnotation(box) ==
    [id |-> 0, page |-> 0, x |-> box.x, y |-> box.y,
     width |-> box.width, height |-> box.height]

\* where the canvas shows a scene rectangle: its corner and its size on screen
OnScreen(g, v) ==
    <<TransformPoint(<<g[1], g[2]>>, v), RMul(g[3], v.z), RMul(g[4], v.z)>>

\* page-space size of the rectangle the last gesture drew
DrawnWidth == RDiv(lastDraw[1].rect[3], lastDraw[1].bg.scale)
DrawnHeight == RDiv(lastDraw[1].rect[4], lastDraw[1].bg.scale)

\* C1: with a page image loaded, mapping a page point to the canvas as render
\* does (offset + p * scale) and back as the end of a draw gesture does
\* ((v - offset) / scale) returns the page point, for points within the page
\* and for the corner of every annotation of the list.
C1_RoundTrip ==
    bgImage # <<>> =>
        /\ \A p \in PagePoints(bgImage[1]) :
               ToPage(ToView(p, bgImage[1]), bgImage[1]) = p
        /\ \A i \in 1..Len(annotations) :
               LET r == AnnotationRect(annotations[i], bgImage[1])
               IN  ToPage(<<r.g[1], r.g[2]>>, bgImage[1])
                       = <<annotations[i].x, annotations[i].y>>

\* C1 witness: a fitted image (scale below 1, centred) with annotations drawn on it
C1_Witness ==
    /\ bgImage # <<>>
    /\ bgImage[1].scale # I(1)
    /\ bgImage[1].left # I(0)
    /\ annotations # <<>>
    /\ AnnotationObjects # {}

\* C2: the box an accepted draw gesture passed to onAnnotationCreate, rendered
\* under the background scale and offset of the gesture, has the left, top,
\* width and height of the rectangle that was drawn, in the scene and on
\* screen under the current viewport transform.
C2_DrawnBoxReprojects ==
    (lastDraw # <<>> /\ lastDraw[1].emitted) =>
        /\ \E i \in CreateRequests : inflight[i].box = lastDraw[1].box
        /\ \A i \in CreateRequests :
               inflight[i].box = lastDraw[1].box =>
                   LET r == AnnotationRect(BoxAnnotation(inflight[i].box), lastDraw[1].bg)
                   IN  /\ r.g = lastDraw[1].rect
                       /\ OnScreen(r.g, vpt) = OnScreen(lastDraw[1].rect, vpt)

\* C2 witness: an accepted gesture that was drawn under a viewport transform
\* that both scales and translates
C2_Witness ==
    /\ lastDraw # <<>>
    /\ lastDraw[1].emitted
    /\ lastDraw[1].rect[1][2] # 1
    /\ vpt.z # I(1)
    /\ vpt.tx # I(0)
    /\ CreateRequests # {}

\* C3: a wheel zoom at pointer position P leaves the scene point that was
\* shown at P shown at P.
C3_WheelPivotFixed ==
    [][\A P \in ViewPoints, out \in BOOLEAN :
           Wheel(P, out) => TransformPoint(GetPointer(P, vpt), vpt') = Pt(P)]_vars

\* C4: the canvas zoom factor stays within [0.1, 5].
C4_ZoomInRange ==
    RLe(MinZoom, vpt.z) /\ RLe(vpt.z, MaxZoom)

\* C5: a draw gesture whose page-space width or height (scene size divided by
\* the background scale) is below 10 emits no onAnnotationCreate call.
C5_SmallGestureDiscarded ==
    (lastDraw # <<>> /\ (RLt(DrawnWidth, I(10)) \/ RLt(DrawnHeight, I(10)))) =>
        /\ ~lastDraw[1].emitted
        /\ \A i \in CreateRequests : inflight[i].box # lastDraw[1].box

\* C5 witness: the gesture from (100,100) to (105,103) on the 1600x1200 page
\* fitted into 800x600 ended, and was discarded
C5_Witness ==
    /\ lastDraw # <<>>
    /\ lastDraw[1].bg = FitImage(<<800, 600>>, <<1600, 1200>>)
    /\ lastDraw[1].rect = <<I(100), I(100), I(5), I(3)>>
    /\ lastDraw[1].box.width = Q(100, 9)
    /\ lastDraw[1].box.height = Q(20, 3)
    /\ ~lastDraw[1].emitted
    /\ CreateRequests = {}

\* C6: a draw gesture whose page-space width and height are both at least 10
\* emits an onAnnotationCreate call carrying its page-space box.
C6_BigGestureEmitted ==
    (lastDraw # <<>> /\ RLe(I(10), DrawnWidth) /\ RLe(I(10), DrawnHeight)) =>
        /\ lastDraw[1].emitted
        /\ \E i \in CreateRequests : inflight[i].box = lastDraw[1].box

\* C7: every box passed to onAnnotationCreate has x >= 0, y >= 0, width > 0
\* and height > 0.
C7_CreatedBoxWellFormed ==
    \A i \in CreateRequests :
        /\ RLe(I(0), inflight[i].box.x)
        /\ RLe(I(0), inflight[i].box.y)
        /\ RLt(I(0), inflight[i].box.width)
        /\ RLt(I(0), inflight[i].box.height)

\* C8: each connection of the local list references two distinct annotations,
\* both present in the local annotation list and on the connection's page.
C8_ConnectionsValid ==
    \A i \in 1..Len(connections) :
        LET c == connections[i]
            fromAnn == FindAnn(annotations, c.from)
            toAnn == FindAnn(annotations, c.to)
        IN  /\ c.from # c.to
            /\ fromAnn # <<>> /\ toAnn # <<>>
            /\ fromAnn[1].page = c.page /\ toAnn[1].page = c.page

\* the annotation rects on the canvas under position P
RectsAt(P) ==
    {i \in AnnotationObjects : ContainsPoint(objects[i], GetPointer(P, vpt))}

\* the topmost (last added) of the annotation rects under position P
TopRectAt(P) ==
    CHOOSE i \in RectsAt(P) : \A j \in RectsAt(P) : j <= i

\* C9: after a click with the select tool at a point inside two or more
\* annotation rects, the selected annotation is that of the topmost one (the
\* later one of the list).
C9_TopmostSelected ==
    (lastClick # <<>> /\ Cardinality(RectsAt(lastClick[1])) >= 2) =>
        selectedAnnotation = FindAnn(annotations, objects[TopRectAt(lastClick[1])].id)

\* ids of the connections of the list whose two endpoints are in the annotation list
DrawableIds ==
    {connections[i].id : i \in {j \in 1..Len(connections) :
                                    Drawable(connections[j], annotations)}}

\* C10: the lines on the canvas are those of the connections whose two
\* endpoints are in the annotation list, one each; a connection with a missing
\* endpoint has no line and does not keep the other connections from being drawn.
C10_DanglingSkipped ==
    LET lineIds == {objects[i].id : i \in ConnectionObjects}
    IN  /\ lineIds = IF AnnotationObjects = {} THEN {} ELSE DrawableIds
        /\ Cardinality(ConnectionObjects) = Cardinality(lineIds)

\* C10 witness: one connection has lost an endpoint and has no line, another
\* connection of the same list is drawn
C10_Witness ==
    /\ \E i \in 1..Len(connections) : ~Drawable(connections[i], annotations)
    /\ ConnectionObjects # {}
    /\ \A i \in ConnectionObjects : objects[i].id \in DrawableIds

\* the annotation rect object of every annotation of the list, under background bg
RectsFor(bg) == {AnnotationRect(annotations[k], bg) : k \in 1..Len(annotations)}

\* C11: with a page image on the canvas, its scale and offset are the fit of
\* the image to the container as it is now, and the annotation rects on the
\* canvas are those of the annotation list at the positions that the
\* background's scale and offset give.
C11_OverlaysFollowFit ==
    bgImage # <<>> =>
        /\ bgImage[1] = FitImage(container, <<bgImage[1].width, bgImage[1].height>>)
        /\ {objects[i] : i \in AnnotationObjects} = RectsFor(bgImage[1])

\* the requests in flight that delete, or create, an annotation
DeleteRequests == {i \in 1..Len(inflight) : inflight[i].op = "delete"}

\* the annotation list holds an annotation with this box
Listed(box) ==
    \E k \in 1..Len(annotations) :
        /\ annotations[k].x = box.x /\ annotations[k].y = box.y
        /\ annotations[k].width = box.width /\ annotations[k].height = box.height

\* C12: while a create or delete request is in flight the annotation list
\* already shows its effect (the created box is listed, the deleted annotation
\* is gone), and just after such a request failed the list still shows it.
C12_OptimisticUpdate ==
    /\ \A i \in DeleteRequests : FindAnn(annotations, inflight[i].id) = <<>>
    /\ \A i \in CreateRequests : Listed(inflight[i].box)
    /\ (lastError # <<>> /\ lastError[1].op = "delete") =>
           FindAnn(annotations, lastError[1].id) = <<>>
    /\ (lastError # <<>> /\ lastError[1].op = "create") => Listed(lastError[1].box)

\* C13: when the last event was the failure of a request that creates or
\* deletes an annotation, a message was shown to the user.
C13_FailureShown ==
    (lastError # <<>> /\ lastError[1].op \in {"create", "delete"}) => lastError[1].shown

Centred(bg, cont) ==
    /\ RAdd(bg.left, RAdd(RMul(I(bg.width), bg.scale), bg.left)) = I(cont[1])
    /\ RAdd(bg.top, RAdd(RMul(I(bg.height), bg.scale), bg.top)) = I(cont[2])

\* C15: the background that an image load puts on the canvas has nine tenths
\* of the largest scale, not above 1, at which the image fits the container
\* (so it is never shown above 100%), and is centred in the container.
C15_FitFormula ==
    [][\A p \in Pages :
           ImageLoaded(p, TRUE) =>
               LET bg == bgImage'[1]
                   s == RDiv(bg.scale, Q(9, 10))
                   w == RMul(I(pageImage[p][1]), s)
                   h == RMul(I(pageImage[p][2]), s)
               IN  /\ bg.width = pageImage[p][1] /\ bg.height = pageImage[p][2]
                   /\ RLe(s, I(1))
                   /\ RLe(w, I(container[1])) /\ RLe(h, I(container[2]))
                   /\ s = I(1) \/ w = I(container[1]) \/ h = I(container[2])
                   /\ Centred(bg, container)]_vars

\* C15 witness: the 1600x1200 image was loaded into the 400x300 container
C15_Witness ==
    /\ container = <<400, 300>>
    /\ bgImage # <<>>
    /\ bgImage[1].width = 1600
    /\ bgImage[1].scale = Q(9, 40)
    /\ bgImage[1].left = I(20) /\ bgImage[1].top = I(15)

\* C16 as stated: the 1600x1200 image loaded into the 800x600 container gets
\* scale 0.375 and is centred.
C16_FitScale375 ==
    [][\A p \in Pages :
           (ImageLoaded(p, TRUE) /\ container = <<800, 600>>
                /\ pageImage[p] = <<1600, 1200>>) =>
               /\ bgImage'[1].scale = Q(3, 8)
               /\ Centred(bgImage'[1], container)]_vars

\* C16 as amended: the 1600x1200 image loaded into the 800x600 container gets
\* scale 0.45 and offset (40, 30), which centres it.
C16_FitScale45 ==
    [][\A p \in Pages :
           (ImageLoaded(p, TRUE) /\ container = <<800, 600>>
                /\ pageImage[p] = <<1600, 1200>>) =>
               /\ bgImage'[1].scale = Q(9, 20)
               /\ bgImage'[1].left = I(40) /\ bgImage'[1].top = I(30)
               /\ Centred(bgImage'[1], container)]_vars

\* C16 witness: the 1600x1200 image is on the canvas of the 800x600 container
\* with the scale and offset of that load
C16_Witness ==
    /\ container = <<800, 600>>
    /\ bgImage # <<>>
    /\ bgImage[1].width = 1600 /\ bgImage[1].height = 1200
    /\ bgImage[1].scale = Q(9, 20)
    /\ bgImage[1].left = I(40)

\* C17: running the render effect on the canvas it has just produced, with the
\* same lists and background, gives that canvas again, and no object is on
\* it twice.
C17_RenderIdempotent ==
    LET once == RenderEffect(annotations, connections, bgImage, objects)
        twice == RenderEffect(annotations, connections, bgImage, once)
    IN  /\ twice = once
        /\ Cardinality({once[i] : i \in 1..Len(once)}) = Len(once)

\* C17 witness: the canvas shows rects and lines and is what the effect gives
C17_Witness ==
    /\ AnnotationObjects # {}
    /\ ConnectionObjects # {}
    /\ objects = RenderEffect(annotations, connections, bgImage, objects)

\* C18: a list load or a tool change (each runs the render effect), a click
\* (selection), and the begin, update and end of a draw gesture leave the
\* background's scale and offset and the viewport transform as they were.
C18_TransformFramed ==
    [][(ListNext \/ ToolNext \/ MouseNext) => UNCHANGED <<bgImage, vpt>>]_vars

\* C18 witness: under a zoomed and shifted viewport a draw gesture has ended
\* and a click has then selected an annotation
C18_Witness ==
    /\ bgImage # <<>>
    /\ vpt.z # I(1) /\ vpt.tx # I(0)
    /\ lastDraw # <<>>
    /\ lastClick # <<>>
    /\ selectedAnnotation # <<>>
    /\ AnnotationObjects # {}

\* C20: a move of a draw gesture to pointer q gives the temp rect the corner
\* min(start, q), component by component, and the sizes |q - start|, none of
\* them negative; the page box computed at the end of a gesture has no
\* negative width or height.
C20_RectNormalised ==
    [][/\ \A P \in DrawPoints :
              (~panning /\ isDrawing /\ tempRect # <<>> /\ drawStart # <<>> /\ MouseMove(P)) =>
                  LET q == GetPointer(P, vpt)
                      start == drawStart[1]
                      g == tempRect'[1]
                  IN  /\ g[1] = RMin(start[1], q[1])
                      /\ g[2] = RMin(start[2], q[2])
                      /\ g[3] = RAbs(RSub(q[1], start[1]))
                      /\ g[4] = RAbs(RSub(q[2], start[2]))
                      /\ RLe(I(0), g[3]) /\ RLe(I(0), g[4])
       /\ lastDraw' # <<>> =>
              /\ RLe(I(0), lastDraw'[1].box.width)
              /\ RLe(I(0), lastDraw'[1].box.height)]_vars

\* C20 witness: a gesture dragged up and to the right has ended; its rect
\* kept the start's left and took the pointer's top
C20_Witness ==
    /\ lastDraw # <<>>
    /\ lastDraw[1].rect = <<I(105), I(100), I(4), I(3)>>
    /\ vpt = Identity

\* C19: while a pan drag is under way, the view offset is the offset at the
\* start of the drag plus the pointer's total displacement since then,
\* unclamped, and the scale is the one at the start of the drag.
C19_PanFollowsPointer ==
    drag # <<>> =>
        /\ vpt.tx = RAdd(drag[1].vpt.tx, I(drag[1].at[1] - drag[1].start[1]))
        /\ vpt.ty = RAdd(drag[1].vpt.ty, I(drag[1].at[2] - drag[1].start[2]))
        /\ vpt.z = drag[1].vpt.z

\* the centre of an annotation's box on the canvas under background bg:
\* (ox + (x + width/2) * s, oy + (y + height/2) * s)
BoxCentre(a, bg) ==
    <<RAdd(bg.left, RMul(RAdd(a.x, RDiv(a.width, I(2))), bg.scale)),
      RAdd(bg.top, RMul(RAdd(a.y, RDiv(a.height, I(2))), bg.scale))>>

\* the connections of the list with this id
ConnsWithId(id) == SelectSeq(connections, LAMBDA c : c.id = id)

\* C21: with a page image on the canvas, every connection line on the canvas
\* is the only line of its connection, the connection is in the list with
\* both its annotations, and the line runs from the centre of the from-box
\* to the centre of the to-box under the background's scale and offset.
C21_LinesJoinCentres ==
    bgImage # <<>> =>
        \A i \in ConnectionObjects :
            /\ \A j \in ConnectionObjects : objects[j].id = objects[i].id => j = i
            /\ ConnsWithId(objects[i].id) # <<>>
            /\ LET conn == ConnsWithId(objects[i].id)[1]
                   fromAnn == FindAnn(annotations, conn.from)
                   toAnn == FindAnn(annotations, conn.to)
               IN  /\ fromAnn # <<>> /\ toAnn # <<>>
                   /\ <<objects[i].g[1], objects[i].g[2]>> = BoxCentre(fromAnn[1], bgImage[1])
                   /\ <<objects[i].g[3], objects[i].g[4]>> = BoxCentre(toAnn[1], bgImage[1])

\* the annotation rects on the canvas, and the entries of the list, with this id
RectsWithId(id) == {i \in AnnotationObjects : objects[i].id = id}
ListedWithId(id) == {k \in 1..Len(annotations) : annotations[k].id = id}

\* C22: with a page image on the canvas (every render is complete between two
\* steps), each annotation of the list has exactly one rect on the canvas and
\* every annotation rect on the canvas belongs to an annotation of the list.
C22_OneRectPerAnnotation ==
    bgImage # <<>> =>
        /\ \A k \in 1..Len(annotations) :
               Cardinality(RectsWithId(annotations[k].id)) = 1
        /\ \A i \in AnnotationObjects : ListedWithId(objects[i].id) # {}

\* a JavaScript Number that is neither NaN nor an infinity
Finite(a) == a[2] # 0

Location == history[Len(history)]

\* C24: in a browser tab, the Dashboard and the Annotator are on screen only
\* with a token in localStorage.  Opening "/" or an "/annotate/:id" location
\* without a token ends at "/login" with the Login page, opening "/login"
\* with a token ends at "/" with the Dashboard, and opening a location
\* without a route goes to "/" (and from there as "/" does).
C24_RoutesGuarded ==
    [][/\ screen' \in {"Dashboard", "Annotator"} => token'
       /\ \A path \in Paths :
              Visit(path) =>
                  LET to == history'[Len(history')]
                  IN  /\ (~token /\ path \in {"/"} \cup AnnotatePaths) =>
                             (to = "/login" /\ screen' = "Login")
                      /\ (token /\ path = "/login") => (to = "/" /\ screen' = "Dashboard")
                      /\ path = "/settings" =>
                             /\ to = (IF token THEN "/" ELSE "/login")
                             /\ screen' = (IF token THEN "Dashboard" ELSE "Login")
                      /\ (token /\ path = "/") => screen' = "Dashboard"
                      /\ (token /\ path \in AnnotatePaths) =>
                             (to = path /\ screen' = "Annotator")
                      /\ (~token /\ path = "/login") => screen' = "Login"]_vars

\* C24 witness: after a logout the user went back to a protected location and
\* was sent to the login page
C24_Witness ==
    /\ ~token
    /\ screen = "Login"
    /\ Len(history) = 2
    /\ history[1] = "/annotate/1"
    /\ Location = "/login"

\* the annotations that the store holds and did not hold at the start: those
\* whose create request succeeded and that no delete request removed since
CreatedInStore ==
    {j \in 1..Len(srvAnns) : \A k \in 1..Len(InitAnns) : InitAnns[k].id # srvAnns[j].id}

\* C25: with no request in flight, the annotation list holds every annotation
\* that a successful create request added to the store, and no annotation that
\* the store no longer holds because a delete request succeeded.
C25_NoChangeLost ==
    inflight = <<>> =>
        /\ \A j \in CreatedInStore : FindAnn(annotations, srvAnns[j].id) # <<>>
        /\ \A k \in 1..Len(annotations) : FindAnn(srvAnns, annotations[k].id) # <<>>

\* C26: with no request in flight, and every list request answered with
\* success, the annotation and connection lists are the store's records of the
\* current page.
C26_ListsOfCurrentPage ==
    inflight = <<>> =>
        /\ annotations = ListForPage(srvAnns, currentPage)
        /\ connections = ListForPage(srvConns, currentPage)

\* C27: a selected annotation is an entry of the annotation list, with the
\* same id and the same fields.
C27_SelectionInList ==
    selectedAnnotation # <<>> =>
        \E k \in 1..Len(annotations) : annotations[k] = selectedAnnotation[1]

TempObjects == {i \in 1..Len(objects) : objects[i].name = "temp"}

\* C28: the canvas never holds more than one temp rect, and whenever a draw
\* gesture is in progress the 'mouse:up' handler, run in that state, leaves no
\* temp rect on the canvas, the temp rect state empty and isDrawing false,
\* with or without a page image.
C28_TempRectCleared ==
    /\ Cardinality(TempObjects) <= 1
    /\ (~panning /\ isDrawing /\ tempRect # <<>> /\ drawStart # <<>>) =>
           ENABLED (/\ handleMouseUp
                    /\ ~isDrawing'
                    /\ tempRect' = <<>>
                    /\ \A i \in 1..Len(objects') : objects'[i].name # "temp")

\* C29: the zoom held in component state is the zoom factor of the canvas's
\* viewport transform.
C29_ZoomStateIsCanvasZoom ==
    zoom = vpt.z

\* the requests in flight that belong to a run of handleAutoDetect: the
\* detection, then the reload it awaits
DetectRequests == {i \in 1..Len(inflight) : inflight[i].op \in {"detect", "reload"}}

\* C30: the detecting flag is true exactly while a run of handleAutoDetect
\* has a request in flight, there is never more than one such run, a
\* detection that succeeds keeps the flag and starts the reload of its page,
\* and the flag is cleared only by a failed detection or by the return of the
\* reload.
C30_DetectingGuardsRun ==
    [][/\ detecting' <=> (DetectRequests' # {})
       /\ Cardinality(DetectRequests') <= 1
       /\ \A i \in DetectRequests :
              /\ (inflight[i].op = "detect" /\ CompleteDetect(i, TRUE)) =>
                     /\ detecting'
                     /\ \E j \in DetectRequests' :
                            /\ inflight'[j].op = "reload"
                            /\ inflight'[j].page = inflight[i].page
              /\ (inflight[i].op = "detect" /\ CompleteDetect(i, FALSE)) => ~detecting'
              /\ (inflight[i].op = "reload" /\ \E ok \in BOOLEAN : CompleteList(i, ok)) =>
                     ~detecting'
       /\ (detecting /\ ~detecting') =>
              \E i \in DetectRequests :
                  \/ inflight[i].op = "detect" /\ CompleteDetect(i, FALSE)
                  \/ inflight[i].op = "reload" /\ \E ok \in BOOLEAN : CompleteList(i, ok)]_vars

\* C30 witness: a detection succeeded, the store added an annotation to page
\* 1, the reload has shown it and the flag is cleared
C30_Witness ==
    /\ ~detecting
    /\ inflight = <<>>
    /\ \E k \in 1..Len(annotations) : annotations[k].x = DetectedBox.x
    /\ Len(annotations) = 4

====
